---- MODULE Spec2Model ----
(***************************************************************************)
(* Model of the chronopharmacology dashboard (src/app.py): the PK curve    *)
(* generator, the normaliser, the side-effect curve, onset / peak, the     *)
(* counter-dose recommendation and the covered (mitigation) curve.         *)
(*                                                                         *)
(* Numbers.  The script works on float64; the model works on integers:     *)
(*   - a time is a whole number of ticks, TicksPerHour ticks to the hour;  *)
(*   - a rate (ka, ke) is a whole number of RateScale-ths per hour;        *)
(*   - a curve value, and the argument and value of exp, is a fixed-point  *)
(*     number with Scale units to 1.0.                                     *)
(* The grid np.linspace(0, 48, 1200) is scaled down to GridLen samples     *)
(* GridStep ticks apart.                                                   *)
(*                                                                         *)
(* Specifications.  Spec: the dashboard script rerun on widget changes in  *)
(* a logged-in session.  SpecAuth: the same script with require_auth,      *)
(* login and logout.  SpecFn: pk_model, normalize, onset / peak and the    *)
(* covered curve on bounded arguments.  SpecLabel: interaction_severity    *)
(* on bounded label texts.  SpecTriage: triage_clonazepam and              *)
(* triage_adderall (src/app_2.0.py) on bounded patients.                   *)
(***************************************************************************)
EXTENDS Integers, Sequences, FiniteSets, TLC

\* ------------------------------------------------------------------ units
TicksPerHour == 10
RateScale == 1000000
Scale == 1000

\* ----------------------------------------------------------------- bounds
GridLen == 13
GridStep == 20

\* -------------------------------------------------------------- arithmetic
Abs(a) == IF a < 0 THEN -a ELSE a
Max2(a, b) == IF a >= b THEN a ELSE b
Min2(a, b) == IF a <= b THEN a ELSE b

Sign(a) == IF a < 0 THEN -1 ELSE IF a > 0 THEN 1 ELSE 0

\* a * b / c truncated towards zero, for |b| <= Scale and c # 0, without
\* forming a * b: a = q * c + r gives q * b + r * b / c.  Past 2^21 the
\* divisor and the remainder lose their two lowest bits to keep r * b in
\* range.
MulDiv(a, b, c) ==
    LET q == Abs(a) \div Abs(c)
        r == Abs(a) % Abs(c)
        rest == IF Abs(c) < 2048 * 1024
                THEN (r * Abs(b)) \div Abs(c)
                ELSE ((r \div 4) * Abs(b)) \div (Abs(c) \div 4)
    IN  Sign(a) * Sign(b) * Sign(c) * (q * Abs(b) + rest)

\* np.max of a non-empty array.
RECURSIVE SeqMaxFrom(_, _)
SeqMaxFrom(x, i) ==
    IF i = Len(x) THEN x[i] ELSE Max2(x[i], SeqMaxFrom(x, i + 1))
SeqMax(x) == SeqMaxFrom(x, 1)

\* np.argmax: the first index holding the maximum.
ArgMax(x) == CHOOSE i \in DOMAIN x :
    /\ x[i] = SeqMax(x)
    /\ \A j \in DOMAIN x : j < i => x[j] < x[i]

RECURSIVE SeqSumFrom(_, _)
SeqSumFrom(x, i) == IF i > Len(x) THEN 0 ELSE x[i] + SeqSumFrom(x, i + 1)
SeqSum(x) == SeqSumFrom(x, 1)

\* ------------------------------------------------------------- exp and log
\* exp(x) for x >= 0 in fixed point: the power series 1 + x + x^2/2! + ...,
\* each term rounded down, summed until a term vanishes.  Every term is
\* non-decreasing in x, so ExpPos is.
RECURSIVE ExpTerms(_, _, _)
ExpTerms(x, n, term) ==
    IF term = 0 THEN 0
    ELSE term + ExpTerms(x, n + 1, (term * x) \div (n * Scale))
ExpPos(x) == ExpTerms(x, 1, Scale)

\* Below exp(-ExpCut) the fixed-point value is 0 (underflow).
ExpCut == 7000

\* np.exp(-x) for x >= 0: 1.0 exactly at 0, non-increasing in x.
ExpNeg(x) == IF x >= ExpCut THEN 0 ELSE (Scale * Scale) \div ExpPos(x)

\* The fixed-point argument rate * time of exp, for a time >= 0 in ticks.
ExpArg(k, t) == (k * t) \div ((RateScale \div Scale) * TicksPerHour)

\* np.log(num / den) for num >= den > 0, in fixed point: the largest x in
\* lo .. hi with exp(x) <= num / den.
RECURSIVE LogSearch(_, _, _, _)
LogSearch(num, den, lo, hi) ==
    IF lo = hi THEN lo
    ELSE LET mid == (lo + hi + 1) \div 2
         IN  IF ExpPos(mid) * den <= num * Scale
             THEN LogSearch(num, den, mid, hi)
             ELSE LogSearch(num, den, lo, mid - 1)
Log(num, den) == LogSearch(num, den, 0, 4 * Scale)

\* np.log(2), as a rate.
Ln2 == 693147

\* ---------------------------------------------------------------- PK model
\* |ka - ke| < 1e-9.  A rate is a whole number of millionths per hour and
\* 1e-9 is a thousandth of one, so EpsCeil is 1e-9 rounded up to a rate.
EpsCeil == 1
\* ka + 1e-6.
Perturb == 1

\* pk_model, the guard: the ka that enters the formula.
pk_ka_unguarded(ka, ke) == ka
pk_ka(ka, ke) == IF Abs(ka - ke) < EpsCeil THEN ka + Perturb ELSE ka

\* pk_model, the divisor (ka - ke) of the formula.
pk_divisor(ka, ke) == pk_ka(ka, ke) - ke

\* pk_model at one sample: (dose*ka/(ka-ke)) * (exp(-ke*t) - exp(-ka*t)),
\* t = max(t_hours, 0), as a fixed-point value.  The divisor is not 0.
pk_sample_abs(t_hour, dose, ka, ke) ==
    LET t == Abs(t_hour)
        ka2 == pk_ka(ka, ke)
    IN  MulDiv(dose * ka2,
               ExpNeg(ExpArg(ke, t)) - ExpNeg(ExpArg(ka2, t)),
               ka2 - ke)
pk_sample(t_hour, dose, ka, ke) ==
    LET t == Max2(t_hour, 0)
        ka2 == pk_ka(ka, ke)
    IN  MulDiv(dose * ka2,
               ExpNeg(ExpArg(ke, t)) - ExpNeg(ExpArg(ka2, t)),
               ka2 - ke)

\* pk_model on an array of times; a zero divisor raises ZeroDivisionError,
\* and then there is no array.
pk_raises(ka, ke) == pk_divisor(ka, ke) = 0
pk_model(t_hours, dose, ka, ke) ==
    [i \in DOMAIN t_hours |-> pk_sample(t_hours[i], dose, ka, ke)]

\* normalize: x / max(x), or x / 1.0 when max(x) is not positive.
normalize_by_sum(x) ==
    LET mx == IF SeqSum(x) > 0 THEN SeqSum(x) ELSE Scale
    IN  [i \in DOMAIN x |-> (x[i] * Scale) \div mx]
normalize(x) ==
    LET mx == IF SeqMax(x) > 0 THEN SeqMax(x) ELSE Scale
    IN  [i \in DOMAIN x |-> (x[i] * Scale) \div mx]

\* ------------------------------------------------------------------ tables
PSYCH_MEDS == <<
    "Aripiprazole (Abilify)", "Risperidone (Risperdal)", "Olanzapine (Zyprexa)",
    "Quetiapine (Seroquel)", "Ziprasidone (Geodon)", "Clozapine (Clozaril)",
    "Haloperidol (Haldol)", "Fluoxetine (Prozac)", "Sertraline (Zoloft)",
    "Escitalopram (Lexapro)", "Citalopram (Celexa)", "Paroxetine (Paxil)",
    "Venlafaxine (Effexor)", "Duloxetine (Cymbalta)", "Bupropion (Wellbutrin)",
    "Mirtazapine (Remeron)", "Lamotrigine (Lamictal)", "Lithium (Lithobid)",
    "Valproate (Depakote)", "Carbamazepine (Tegretol)" >>

MED_SEARCH_NAME ==
    ( "Aripiprazole (Abilify)" :> "aripiprazole" @@ "Risperidone (Risperdal)" :> "risperidone"
   @@ "Olanzapine (Zyprexa)" :> "olanzapine" @@ "Quetiapine (Seroquel)" :> "quetiapine"
   @@ "Ziprasidone (Geodon)" :> "ziprasidone" @@ "Clozapine (Clozaril)" :> "clozapine"
   @@ "Haloperidol (Haldol)" :> "haloperidol" @@ "Fluoxetine (Prozac)" :> "fluoxetine"
   @@ "Sertraline (Zoloft)" :> "sertraline" @@ "Escitalopram (Lexapro)" :> "escitalopram"
   @@ "Citalopram (Celexa)" :> "citalopram" @@ "Paroxetine (Paxil)" :> "paroxetine"
   @@ "Venlafaxine (Effexor)" :> "venlafaxine" @@ "Duloxetine (Cymbalta)" :> "duloxetine"
   @@ "Bupropion (Wellbutrin)" :> "bupropion" @@ "Mirtazapine (Remeron)" :> "mirtazapine"
   @@ "Lamotrigine (Lamictal)" :> "lamotrigine" @@ "Lithium (Lithobid)" :> "lithium"
   @@ "Valproate (Depakote)" :> "valproic acid" @@ "Carbamazepine (Tegretol)" :> "carbamazepine" )

MED_HALF_LIFE_HOURS ==
    ( "aripiprazole" :> 75 @@ "risperidone" :> 20 @@ "olanzapine" :> 30
   @@ "quetiapine" :> 6 @@ "ziprasidone" :> 7 @@ "clozapine" :> 12
   @@ "haloperidol" :> 20 @@ "fluoxetine" :> 96 @@ "sertraline" :> 26
   @@ "escitalopram" :> 27 @@ "citalopram" :> 35 @@ "paroxetine" :> 21
   @@ "venlafaxine" :> 5 @@ "duloxetine" :> 12 @@ "bupropion" :> 21
   @@ "mirtazapine" :> 30 @@ "lamotrigine" :> 25 @@ "lithium" :> 24
   @@ "valproic acid" :> 12 @@ "carbamazepine" :> 15 )

\* MED_KA, in rate units (1.2 is 1200000).
MED_KA ==
    ( "default" :> 1200000 @@ "fluoxetine" :> 900000 @@ "aripiprazole" :> 1000000
   @@ "quetiapine" :> 2000000 @@ "venlafaxine" :> 2000000 )

\* COUNTER_MEDS: ka in rate units, the half-life of ke = ln(2)/half-life in
\* tenths of an hour, t_max in tenths of an hour.
COUNTER_MEDS ==
    ( "Clonazepam" :> [ka |-> 1800000, half10 |-> 350, t_max |-> 20, generic |-> "clonazepam"]
   @@ "Propranolol" :> [ka |-> 2500000, half10 |-> 40, t_max |-> 15, generic |-> "propranolol"]
   @@ "Melatonin" :> [ka |-> 3000000, half10 |-> 10, t_max |-> 5, generic |-> "melatonin"]
   @@ "Guanfacine" :> [ka |-> 1200000, half10 |-> 170, t_max |-> 30, generic |-> "guanfacine"]
   @@ "Hydroxyzine" :> [ka |-> 2000000, half10 |-> 200, t_max |-> 20, generic |-> "hydroxyzine"]
   @@ "Benadryl" :> [ka |-> 2200000, half10 |-> 80, t_max |-> 20, generic |-> "diphenhydramine"]
   @@ "Zofran" :> [ka |-> 2800000, half10 |-> 35, t_max |-> 15, generic |-> "ondansetron"]
   @@ "Trazodone" :> [ka |-> 1500000, half10 |-> 100, t_max |-> 20, generic |-> "trazodone"]
   @@ "Magnesium" :> [ka |-> 800000, half10 |-> 120, t_max |-> 40, generic |-> "magnesium"]
   @@ "Xanax" :> [ka |-> 3000000, half10 |-> 110, t_max |-> 10, generic |-> "alprazolam"] )

\* c["ke"]: np.log(2) / half-life.
CounterKe(c) == (Ln2 * 10) \div c.half10

\* -------------------------------------------------------------- reaction lag
\* A reaction term is modelled by the keywords of the three lists that occur
\* in its lower-cased text.
early == {"nausea", "vomiting", "dizziness", "headache", "dry mouth"}
mid == {"anxiety", "agitation", "tremor", "restlessness", "akathisia"}
late == {"insomnia", "somnolence", "fatigue", "sedation", "sleep"}

ReactionKeywords ==
    ( "Nausea" :> {"nausea"} @@ "Anxiety" :> {"anxiety"}
   @@ "Insomnia" :> {"insomnia"} @@ "Vomiting And Fatigue" :> {"vomiting", "fatigue"}
   @@ "Drug Ineffective" :> {} @@ "No data found" :> {} )

\* reaction_lag_hours, in ticks: clip(base * scale, 0.3, 10.0) with
\* scale = 1 + 0.25 * log(max(half_life, 6) / 6).
reaction_lag_hours(reaction, med_half_life) ==
    LET r == ReactionKeywords[reaction]
        base == IF r \cap early # {} THEN (8 * TicksPerHour) \div 10
                ELSE IF r \cap mid # {} THEN 2 * TicksPerHour
                ELSE IF r \cap late # {} THEN 4 * TicksPerHour
                ELSE 2 * TicksPerHour
        scale == Scale + (250 * Log(Max2(med_half_life, 6), 6)) \div Scale
    IN  Min2(Max2((base * scale) \div Scale, (3 * TicksPerHour) \div 10),
             10 * TicksPerHour)

\* ------------------------------------------------------------ script pieces
\* np.linspace(0, 48, 1200), scaled down: n samples GridStep ticks apart.
linspace_short(n) == [i \in 1 .. n - 1 |-> (i - 1) * GridStep]
linspace(n) == [i \in 1 .. n |-> (i - 1) * GridStep]

\* t_plot - offset.
Shift_forward(t, offset) == [i \in DOMAIN t |-> t[i] + offset]
Shift(t, offset) == [i \in DOMAIN t |-> t[i] - offset]

\* np.zeros_like.
zeros_like(x) == [i \in DOMAIN x |-> 0]

\* onset_idx: the samples with se_curve > 0.15 * max(se_curve).
onset_idx_ge(se) == {i \in DOMAIN se : se[i] * 100 >= SeqMax(se) * 15}
onset_idx(se) == {i \in DOMAIN se : se[i] * 100 > SeqMax(se) * 15}

\* se_onset_hour: the time of the first such sample, 0.0 when there is none.
OnsetHour_last(t, se) ==
    LET idx == onset_idx(se)
    IN  IF idx # {} THEN t[CHOOSE i \in idx : \A j \in idx : j <= i] ELSE 0
OnsetHour(t, se) ==
    LET idx == onset_idx(se)
    IN  IF idx # {} THEN t[CHOOSE i \in idx : \A j \in idx : i <= j] ELSE 0

\* se_peak_hour: t_plot[np.argmax(se_curve)].
PeakHour(t, se) == t[ArgMax(se)]

\* dt + timedelta(hours = h), h in ticks.
AddHours(dt, h) == dt + h

\* float(c["t_max"]), in ticks.
CounterTmax(c) == (c.t_max * TicksPerHour) \div 10

\* optimal_counter_offset = max(se_onset_hour - t_max, 0.0).
OptimalOffset_noclamp(onset, c) == onset - CounterTmax(c)
OptimalOffset(onset, c) == Max2(onset - CounterTmax(c), 0)

\* user_offset: (dt_counter_user - dt_med) in hours.
UserOffset_earliest(dc, dm) == dc - Min2(dc, dm)
UserOffset(dc, dm) == dc - dm

\* The discrete gradient of a curve at sample i, times twice the grid step:
\* central differences, one-sided at the two ends.
Gradient2(x, i) ==
    IF Len(x) < 2 THEN 0
    ELSE IF i = 1 THEN 2 * (x[2] - x[1])
    ELSE IF i = Len(x) THEN 2 * (x[i] - x[i - 1])
    ELSE x[i + 1] - x[i - 1]

\* The decline threshold, in percent of the primary curve's peak.
DeclineThreshold == 50

\* A sample of the primary curve that is non-declining, or at or above the
\* decline threshold fraction of the peak.
NotInDecline(mc, i) ==
    \/ Gradient2(mc, i) >= 0
    \/ mc[i] * 100 >= DeclineThreshold * SeqMax(mc)

\* se_curve: the curve of the primary medication's rates and of 80% of its
\* dose on the grid shifted back by the lag, whatever the side effect; the
\* primary curve mc, computed just before, is not used.
SideEffectCurve_rebound(t, mc, lag, ka, ke) ==
    normalize([i \in DOMAIN t |->
                  IF NotInDecline(mc, i) THEN 0 ELSE Abs(Gradient2(mc, i))])
SideEffectCurve(t, mc, lag, ka, ke) ==
    normalize(pk_model(Shift(t, lag), 80, ka, ke))

\* counter_curve with a counter medication c: the curve of its ka and ke on
\* the grid shifted by the user's offset; the recommended offset, computed
\* just before, is not used.
CounterCurve_recommended(t, c, user_off, optimal_off) ==
    normalize(pk_model(Shift(t, optimal_off), 110, c.ka, CounterKe(c)))
CounterCurve(t, c, user_off, optimal_off) ==
    normalize(pk_model(Shift(t, user_off), 110, c.ka, CounterKe(c)))

\* covered: np.minimum(se_curve, counter_curve) with a counter medication,
\* zeros without.
Covered_maximum(se, counter, cm) ==
    IF cm # "None"
    THEN [i \in DOMAIN se |-> Max2(se[i], counter[i])]
    ELSE zeros_like(se)
Covered_else_se(se, counter, cm) ==
    IF cm # "None"
    THEN [i \in DOMAIN se |-> Min2(se[i], counter[i])]
    ELSE se
Covered(se, counter, cm) ==
    IF cm # "None"
    THEN [i \in DOMAIN se |-> Min2(se[i], counter[i])]
    ELSE zeros_like(se)

\* ------------------------------------------------------------------- state
VARIABLES
    selected_med, selected_se, counter_med, dt_med, dt_counter_user,
    t_plot, med_curve, se_curve, se_onset_hour, se_peak_hour,
    se_peak_time, se_develop_time,
    counter_curve, optimal_counter_time, optimal_counter_offset, user_offset,
    covered, op, args, result,
    session_state, stage, event

inputs == <<selected_med, selected_se, counter_med, dt_med, dt_counter_user>>
outputs == <<t_plot, med_curve, se_curve, se_onset_hour, se_peak_hour,
             se_peak_time, se_develop_time,
             counter_curve, optimal_counter_time, optimal_counter_offset,
             user_offset, covered>>
\* A function applied on its own: which one, its arguments, what it returned.
call == <<op, args, result>>
\* st.session_state (which of its keys hold a value), where the last run of
\* the script stopped, and what started that run.
auth == <<session_state, stage, event>>
vars == <<inputs, outputs, call, auth>>

\* Python's None.
None == "None"

\* The default of the dose date and time widgets (both doses), in ticks.
DefaultDoseTime == 100

\* What the widgets offer in the model.
MedChoices == {"Aripiprazole (Abilify)", "Quetiapine (Seroquel)",
               "Fluoxetine (Prozac)", "Sertraline (Zoloft)"}
ReactionChoices == {"Nausea", "Anxiety", "Insomnia", "No data found"}
CounterChoices == {"None", "Clonazepam", "Melatonin", "Magnesium"}
MedDoseTimes == {DefaultDoseTime, DefaultDoseTime + 30}
CounterDoseTimes == {DefaultDoseTime - 20, DefaultDoseTime, DefaultDoseTime + 45,
                     DefaultDoseTime + 600}

\* One run of the script with the widgets at the given values: section 7
\* (compute curves) of app.py, as the record of what it computes.
Script(m, se, cm, dm, dc) ==
    LET med_search_name == MED_SEARCH_NAME[m]
        tp == linspace(GridLen)
        half_life == MED_HALF_LIFE_HOURS[med_search_name]
        ke_med == Ln2 \div half_life
        ka_med == IF med_search_name \in DOMAIN MED_KA
                  THEN MED_KA[med_search_name] ELSE MED_KA["default"]
        mc == normalize(pk_model(tp, 100, ka_med, ke_med))
        lag == reaction_lag_hours(se, half_life)
        sc == SideEffectCurve(tp, mc, lag, ka_med, ke_med)
        onset == OnsetHour(tp, sc)
        peak == PeakHour(tp, sc)
        c == COUNTER_MEDS[cm]
        cc == IF cm # "None"
              THEN CounterCurve(tp, c, UserOffset(dc, dm), OptimalOffset(onset, c))
              ELSE zeros_like(tp)
    IN  [ t_plot |-> tp,
          med_curve |-> mc,
          se_curve |-> sc,
          se_onset_hour |-> onset,
          se_peak_hour |-> peak,
          se_peak_time |-> AddHours(dm, peak),
          se_develop_time |-> AddHours(dm, onset),
          counter_curve |-> cc,
          optimal_counter_offset |->
              IF cm # "None" THEN OptimalOffset(onset, c) ELSE None,
          optimal_counter_time |->
              IF cm # "None" THEN AddHours(dm, OptimalOffset(onset, c)) ELSE None,
          user_offset |-> IF cm # "None" THEN UserOffset(dc, dm) ELSE None,
          covered |-> Covered(sc, cc, cm) ]

\* The script, past require_auth, runs with the widgets at the given values.
Compute(m, se, cm, dm, dc) ==
    \E r \in {Script(m, se, cm, dm, dc)} :
        /\ selected_med' = m
        /\ selected_se' = se
        /\ counter_med' = cm
        /\ dt_med' = dm
        /\ dt_counter_user' = dc
        /\ t_plot' = r.t_plot
        /\ med_curve' = r.med_curve
        /\ se_curve' = r.se_curve
        /\ se_onset_hour' = r.se_onset_hour
        /\ se_peak_hour' = r.se_peak_hour
        /\ se_peak_time' = r.se_peak_time
        /\ se_develop_time' = r.se_develop_time
        /\ counter_curve' = r.counter_curve
        /\ optimal_counter_offset' = r.optimal_counter_offset
        /\ optimal_counter_time' = r.optimal_counter_time
        /\ user_offset' = r.user_offset
        /\ covered' = r.covered

\* A run of the script in a session that is logged in and whose profile is
\* fetched.
Run(m, se, cm, dm, dc) ==
    /\ Compute(m, se, cm, dm, dc)
    /\ UNCHANGED <<call, auth>>

\* st.session_state after a login and a profile fetch that succeeded, and
\* after clear().
LoggedIn == [sb_session |-> TRUE, sb_user |-> TRUE, profile |-> TRUE]
EmptySession == [sb_session |-> FALSE, sb_user |-> FALSE, profile |-> FALSE]

\* The first run past require_auth: every widget at its default; the side
\* effect is the first term openFDA returns for the medication.
FirstRun ==
    /\ session_state = LoggedIn
    /\ stage = "dashboard"
    /\ event = "login"
    /\ \E se \in ReactionChoices :
        \E r \in {Script(PSYCH_MEDS[1], se, "None", DefaultDoseTime, DefaultDoseTime)} :
            /\ selected_med = PSYCH_MEDS[1]
            /\ selected_se = se
            /\ counter_med = "None"
            /\ dt_med = DefaultDoseTime
            /\ dt_counter_user = DefaultDoseTime
            /\ t_plot = r.t_plot
            /\ med_curve = r.med_curve
            /\ se_curve = r.se_curve
            /\ se_onset_hour = r.se_onset_hour
            /\ se_peak_hour = r.se_peak_hour
            /\ se_peak_time = r.se_peak_time
            /\ se_develop_time = r.se_develop_time
            /\ counter_curve = r.counter_curve
            /\ optimal_counter_offset = r.optimal_counter_offset
            /\ optimal_counter_time = r.optimal_counter_time
            /\ user_offset = r.user_offset
            /\ covered = r.covered

\* Nothing is applied on its own while the script runs.
NotReturned == [returned |-> FALSE]

Init ==
    /\ FirstRun
    /\ op = "script"
    /\ args = <<>>
    /\ result = NotReturned

\* The user changes one widget and the script runs again.
SelectMedication ==
    \E m \in MedChoices, se \in ReactionChoices :
        Run(m, se, counter_med, dt_med, dt_counter_user)
SelectSideEffect ==
    \E se \in ReactionChoices :
        Run(selected_med, se, counter_med, dt_med, dt_counter_user)
SelectCounter ==
    \E cm \in CounterChoices :
        Run(selected_med, selected_se, cm, dt_med, dt_counter_user)
SetMedDose ==
    \E dm \in MedDoseTimes :
        Run(selected_med, selected_se, counter_med, dm, dt_counter_user)
SetCounterDose ==
    \E dc \in CounterDoseTimes :
        Run(selected_med, selected_se, counter_med, dt_med, dc)

Next ==
    \/ SelectMedication
    \/ SelectSideEffect
    \/ SelectCounter
    \/ SetMedDose
    \/ SetCounterDose

Spec == Init /\ [][Next]_vars

\* ------------------------------------------- the functions on their own
\* The functions of the script applied to arguments drawn from bounded sets:
\* the initial state holds the arguments, the action applies the function.
FnLen == 3
CurveValues == {0, 150, 500, 1000}
FnCurves == [1 .. FnLen -> CurveValues]

PkTimes == <<-30, 0, 1, 25, 100, 400>>
PkDoses == {1, 80, 110}
PkRates == {5000, 9242, 100000, 100001, 693147, 1200000, 3000000}

PkArgs == [t_hours : {PkTimes}, dose : PkDoses, ka : PkRates, ke : PkRates]
NormalizeArgs == [x : FnCurves]
OnsetArgs == [t : {linspace(FnLen)}, se : FnCurves]
CoveredArgs == [se : FnCurves, counter : FnCurves,
                counter_med : {"None", "Clonazepam"}]

InitFn ==
    /\ FirstRun
    /\ selected_se = "No data found"
    /\ \/ op = "pk_model" /\ args \in PkArgs
       \/ op = "normalize" /\ args \in NormalizeArgs
       \/ op = "onset" /\ args \in OnsetArgs
       \/ op = "covered" /\ args \in CoveredArgs
    /\ result = NotReturned

Returns(value) ==
    /\ ~result.returned
    /\ result' = [returned |-> TRUE, value |-> value]
    /\ UNCHANGED <<inputs, outputs, op, args, auth>>

\* pk_model(t_hours, dose, ka, ke); a zero divisor raises.
ApplyPk ==
    /\ op = "pk_model"
    /\ Returns([raised |-> pk_raises(args.ka, args.ke),
                curve |-> IF pk_raises(args.ka, args.ke)
                          THEN <<>>
                          ELSE pk_model(args.t_hours, args.dose, args.ka, args.ke)])

\* normalize(x).
ApplyNormalize ==
    /\ op = "normalize"
    /\ Returns(normalize(args.x))

\* se_onset_hour and se_peak_hour of a side-effect curve.
ApplyOnset ==
    /\ op = "onset"
    /\ Returns([se_onset_hour |-> OnsetHour(args.t, args.se),
                se_peak_hour |-> PeakHour(args.t, args.se)])

\* covered of a side-effect curve and a counter curve.
ApplyCovered ==
    /\ op = "covered"
    /\ Returns(Covered(args.se, args.counter, args.counter_med))

NextFn ==
    \/ ApplyPk
    \/ ApplyNormalize
    \/ ApplyOnset
    \/ ApplyCovered

SpecFn == InitFn /\ [][NextFn]_vars

\* ------------------------------------------------- interaction_severity
\* A label text is a sequence of phrases; a phrase is a drug's generic name,
\* a piece of wording, or the "\n\n" that joins two sections. PhraseWords
\* gives, for each phrase, the keywords of the three lists that occur in it
\* (Python's `w in snip` is a substring test).
PhraseWords ==
    ( "avoid concomitant use" :> {"avoid concomitant", "avoid"}
   @@ "avoid" :> {"avoid"}
   @@ "do not use" :> {"do not use", "do not"}
   @@ "contraindicated" :> {"contraindicated"}
   @@ "monitor" :> {"monitor"}
   @@ "with" :> {}
   @@ "\n\n" :> {}
   @@ "quetiapine" :> {} @@ "clonazepam" :> {} )

severe_words == {"contraindicated", "do not use", "do not coadminister",
                 "do not administer", "avoid concomitant"}
high_words == {"avoid", "do not", "not recommended", "serious",
               "life-threatening", "torsades", "arrhythmia", "qt prolongation"}
med_words == {"monitor", "caution", "dose adjustment", "reduce dose",
              "increase dose", "may increase", "may decrease", "consider"}

\* Half of find_snippet's window (window // 2), in phrases.
WindowHalf == 2

\* needle in text.
Mentions(text, needle) == \E i \in DOMAIN text : text[i] = needle

\* text.find(needle), counted from 1; 0 when there is none.
Find(text, needle) ==
    IF Mentions(text, needle)
    THEN CHOOSE i \in DOMAIN text :
             text[i] = needle /\ \A j \in DOMAIN text : text[j] = needle => i <= j
    ELSE 0

\* find_snippet: the text from window // 2 before the first mention to
\* window // 2 after its start; empty when there is no mention.
find_snippet_last(text, needle) ==
    LET last == IF Mentions(text, needle)
                THEN CHOOSE i \in DOMAIN text :
                         text[i] = needle
                         /\ \A j \in DOMAIN text : text[j] = needle => j <= i
                ELSE 0
    IN  IF last = 0 THEN <<>>
        ELSE SubSeq(text, Max2(1, last - WindowHalf),
                    Min2(Len(text), last - 1 + WindowHalf))
find_snippet(text, needle) ==
    LET idx == Find(text, needle)
    IN  IF idx = 0 THEN <<>>
        ELSE SubSeq(text, Max2(1, idx - WindowHalf),
                    Min2(Len(text), idx - 1 + WindowHalf))

\* any(w in snip for w in words).
AnyWord(words, snip) == \E i \in DOMAIN snip : PhraseWords[snip[i]] \cap words # {}

\* The keyword severity of a snippet; a mention without clear language is
\* medium as well.
KeywordSeverity_unclear_low(snip) ==
    IF AnyWord(severe_words, snip) THEN "severe"
    ELSE IF AnyWord(high_words, snip) THEN "high"
    ELSE IF AnyWord(med_words, snip) THEN "med"
    ELSE "low"
KeywordSeverity(snip) ==
    IF AnyWord(severe_words, snip) THEN "severe"
    ELSE IF AnyWord(high_words, snip) THEN "high"
    ELSE IF AnyWord(med_words, snip) THEN "med"
    ELSE "med"

\* The six sections of a label joined by "\n\n".
JoinSections(b) ==
    b.boxed_warning \o <<"\n\n">> \o b.contraindications \o <<"\n\n">>
    \o b.warnings \o <<"\n\n">> \o b.warnings_and_precautions \o <<"\n\n">>
    \o b.drug_interactions \o <<"\n\n">> \o b.precautions

\* a or b, of two texts.
OrText(a, b) == IF a # <<>> THEN a ELSE b

\* The snippet around the mention of needle in a label: the drug_interactions
\* section is preferred, the joined text otherwise.
MentionSnippet(b, needle) ==
    LET sect == OrText(b.drug_interactions, JoinSections(b))
    IN  OrText(find_snippet(sect, needle), find_snippet(JoinSections(b), needle))

\* interaction_severity(main_generic, counter_generic), where main and ctr
\* are what fetch_label_text_bundle returned for the two drugs.
interaction_severity_any_failure(main_generic, counter_generic, main, ctr) ==
    LET main_text == JoinSections(main)
        ctr_text == JoinSections(ctr)
        target == counter_generic
        target2 == main_generic
        main_mentions == Mentions(main_text, target)
        ctr_mentions == Mentions(ctr_text, target2)
        sev1 == IF main_mentions
                THEN KeywordSeverity(MentionSnippet(main, target)) ELSE "low"
        ev1 == IF main_mentions THEN MentionSnippet(main, target) ELSE <<>>
        second == ctr_mentions /\ sev1 = "low"
        sev2 == IF second THEN KeywordSeverity(MentionSnippet(ctr, target2)) ELSE sev1
        ev2 == IF second THEN MentionSnippet(ctr, target2) ELSE ev1
    IN  IF counter_generic = "" \/ counter_generic = "none"
        THEN [severity |-> "low", evidence |-> <<"No counter medication selected.">>]
        ELSE IF ~main.success \/ ~ctr.success
        THEN [severity |-> "low", evidence |-> <<"No labeling text retrieved">>]
        ELSE IF main_mentions /\ Mentions(main.contraindications, target)
        THEN [severity |-> "severe",
              evidence |-> find_snippet(main.contraindications, target)]
        ELSE IF ctr_mentions /\ Mentions(ctr.contraindications, target2)
        THEN [severity |-> "severe",
              evidence |-> find_snippet(ctr.contraindications, target2)]
        ELSE IF ~main_mentions /\ ~ctr_mentions
        THEN [severity |-> "low", evidence |-> <<"No explicit mention">>]
        ELSE [severity |-> sev2,
              evidence |-> OrText(ev2, <<"Interaction mention detected">>)]
interaction_severity(main_generic, counter_generic, main, ctr) ==
    LET main_text == JoinSections(main)
        ctr_text == JoinSections(ctr)
        target == counter_generic
        target2 == main_generic
        main_mentions == Mentions(main_text, target)
        ctr_mentions == Mentions(ctr_text, target2)
        sev1 == IF main_mentions
                THEN KeywordSeverity(MentionSnippet(main, target)) ELSE "low"
        ev1 == IF main_mentions THEN MentionSnippet(main, target) ELSE <<>>
        second == ctr_mentions /\ sev1 = "low"
        sev2 == IF second THEN KeywordSeverity(MentionSnippet(ctr, target2)) ELSE sev1
        ev2 == IF second THEN MentionSnippet(ctr, target2) ELSE ev1
    IN  IF counter_generic = "" \/ counter_generic = "none"
        THEN [severity |-> "low", evidence |-> <<"No counter medication selected.">>]
        ELSE IF ~main.success /\ ~ctr.success
        THEN [severity |-> "low", evidence |-> <<"No labeling text retrieved">>]
        ELSE IF main_mentions /\ Mentions(main.contraindications, target)
        THEN [severity |-> "severe",
              evidence |-> find_snippet(main.contraindications, target)]
        ELSE IF ctr_mentions /\ Mentions(ctr.contraindications, target2)
        THEN [severity |-> "severe",
              evidence |-> find_snippet(ctr.contraindications, target2)]
        ELSE IF ~main_mentions /\ ~ctr_mentions
        THEN [severity |-> "low", evidence |-> <<"No explicit mention">>]
        ELSE [severity |-> sev2,
              evidence |-> OrText(ev2, <<"Interaction mention detected">>)]

\* The labels openFDA may return, in the model: texts of at most MaxText
\* phrases that name the other drug or not, in the drug_interactions,
\* contraindications and warnings sections; a failed lookup leaves every
\* section empty.
MaxText == 2
Wording == {"avoid", "monitor", "contraindicated"}
Texts(other, n) == UNION {[1 .. k -> Wording \cup {other}] : k \in 0 .. n}

FailedBundle(generic) ==
    [generic |-> generic, drug_interactions |-> <<>>, contraindications |-> <<>>,
     warnings |-> <<>>, boxed_warning |-> <<>>, warnings_and_precautions |-> <<>>,
     precautions |-> <<>>, success |-> FALSE]

Bundles(generic, other) ==
    {FailedBundle(generic)} \cup
    { [FailedBundle(generic) EXCEPT !.drug_interactions = di,
                                    !.contraindications = ci,
                                    !.warnings = w,
                                    !.success = TRUE] :
        di \in Texts(other, MaxText),
        ci \in {<<>>, <<"with">>, <<"do not use", other>>},
        w \in {<<>>, <<"avoid concomitant use", other>>} }

MainGenerics == {"quetiapine"}
CounterGenerics == {"none", "clonazepam"}

SeverityArgs ==
    UNION { UNION { [main_generic : {mg}, counter_generic : {cg},
                     main : IF cg = "none" THEN {FailedBundle(mg)}
                            ELSE Bundles(mg, cg),
                     ctr : IF cg = "none" THEN {FailedBundle(cg)}
                           ELSE Bundles(cg, mg)] :
                    cg \in CounterGenerics } : mg \in MainGenerics }

InitLabel ==
    /\ FirstRun
    /\ selected_se = "No data found"
    /\ op = "interaction_severity"
    /\ args \in SeverityArgs
    /\ result = NotReturned

\* interaction_severity(main_generic, counter_generic) with the two labels
\* fetched.
ApplySeverity ==
    /\ op = "interaction_severity"
    /\ Returns(interaction_severity(args.main_generic, args.counter_generic,
                                    args.main, args.ctr))

NextLabel == ApplySeverity

SpecLabel == InitLabel /\ [][NextLabel]_vars

\* ------------------------------------------------------ triage (app_2.0)
RISK_LEVELS == <<"low", "med", "high", "severe">>

\* RISK_LEVELS.index(level).
LevelIndex(level) == CHOOSE i \in DOMAIN RISK_LEVELS : RISK_LEVELS[i] = level

\* escalate(level, new_level).
escalate_replace(level, new_level) == new_level
escalate(level, new_level) ==
    RISK_LEVELS[Max2(LevelIndex(level), LevelIndex(new_level))]

\* A number input left blank (value None); what is entered is >= 0.
Blank == -1

\* The upper limit of normal the ALT and AST rules multiply by 3.
ULN == 40

\* PatientInputs with every field left at its default. Bilirubin is in
\* tenths of mg/dL.
DefaultPatient ==
    [ age |-> Blank, weight_kg |-> Blank, pregnancy |-> "No/Not applicable",
      sbp |-> Blank, dbp |-> Blank, heart_rate |-> Blank,
      cardiac_disease |-> "No", glaucoma |-> "No", hyperthyroidism |-> "No",
      liver_disease_known |-> "No", alt |-> Blank, ast |-> Blank,
      bilirubin |-> Blank, egfr |-> Blank, maoi_last_14d |-> "No",
      substance_use_disorder |-> "No", severe_anxiety_agitation |-> "No",
      sleep_severe_insomnia |-> "No" ]

Rule(fired, level, flag) == [fired |-> fired, level |-> level, flag |-> flag]

\* The rules of triage_clonazepam in the order of the code: whether each
\* fires for p, the level it escalates to and the flag it appends.
ClonazepamRules(p) ==
    << Rule(p.liver_disease_known = "Yes", "severe", "liver disease"),
       Rule(p.glaucoma = "Acute narrow-angle", "severe", "narrow-angle glaucoma"),
       Rule(p.alt # Blank /\ p.alt >= 3 * ULN, "high", "ALT"),
       Rule(p.ast # Blank /\ p.ast >= 3 * ULN, "high", "AST"),
       Rule(p.bilirubin # Blank /\ p.bilirubin >= 20, "high", "bilirubin"),
       Rule(p.age # Blank /\ p.age >= 65, "med", "older adult"),
       Rule(p.pregnancy # "No/Not applicable", "med", "pregnancy") >>

\* The blood-pressure rules apply with both pressures given.
BpGiven(p) == p.sbp # Blank /\ p.dbp # Blank

\* The rules of triage_adderall in the order of the code; an elif fires only
\* when the tests before it in its chain did not.
AdderallRules(p) ==
    LET bp == BpGiven(p)
        bp_severe == p.sbp >= 160 \/ p.dbp >= 100
        bp_high == p.sbp >= 140 \/ p.dbp >= 90
        bp_med == p.sbp >= 130 \/ p.dbp >= 80
        hr == p.heart_rate # Blank
    IN  << Rule(p.maoi_last_14d = "Yes", "severe", "MAOI"),
           Rule(p.glaucoma \in {"Open-angle", "Acute narrow-angle"}, "severe",
                "glaucoma"),
           Rule(p.hyperthyroidism = "Yes", "severe", "hyperthyroidism"),
           Rule(p.cardiac_disease = "Yes", "severe", "cardiovascular disease"),
           Rule(p.substance_use_disorder = "Yes", "high", "substance use"),
           Rule(p.severe_anxiety_agitation = "Yes", "high", "anxiety/agitation"),
           Rule(bp /\ bp_severe, "severe", "BP moderate-severe"),
           Rule(bp /\ ~bp_severe /\ bp_high, "high", "BP stage 2"),
           Rule(bp /\ ~bp_severe /\ ~bp_high /\ bp_med, "med", "BP elevated"),
           Rule(hr /\ p.heart_rate >= 120, "high", "tachycardia"),
           Rule(hr /\ p.heart_rate < 120 /\ p.heart_rate >= 100, "med",
                "HR elevated"),
           Rule(p.egfr # Blank /\ p.egfr < 15, "high", "eGFR"),
           Rule(p.sleep_severe_insomnia = "Yes", "med", "insomnia"),
           Rule(p.age # Blank /\ p.age < 6, "high", "age under 6") >>

\* The rules evaluated one after the other from rule i on: a rule that fires
\* escalates the level and appends its flag.
RECURSIVE TriageFrom(_, _, _, _)
TriageFrom(rules, i, level, flags) ==
    IF i > Len(rules) THEN [level |-> level, flags |-> flags]
    ELSE IF rules[i].fired
    THEN TriageFrom(rules, i + 1, escalate(level, rules[i].level),
                    Append(flags, rules[i].flag))
    ELSE TriageFrom(rules, i + 1, level, flags)

triage_clonazepam(p) == TriageFrom(ClonazepamRules(p), 1, "low", <<>>)
triage_adderall(p) == TriageFrom(AdderallRules(p), 1, "low", <<>>)

\* The patients of the model: for each function the fields it reads take
\* values on both sides of each threshold, the others stay at their default.
YesNo == {"No", "Yes"}

ClonazepamPatients ==
    { [DefaultPatient EXCEPT !.liver_disease_known = liver, !.glaucoma = gl,
                             !.alt = alt, !.ast = ast, !.bilirubin = bili,
                             !.age = age, !.pregnancy = preg] :
        liver \in YesNo, gl \in {"No", "Open-angle", "Acute narrow-angle"},
        alt \in {Blank, 40, 120}, ast \in {Blank, 120}, bili \in {Blank, 10, 20},
        age \in {Blank, 5, 65}, preg \in {"No/Not applicable", "Pregnant"} }

AdderallPatients ==
    { [DefaultPatient EXCEPT !.maoi_last_14d = maoi, !.glaucoma = gl,
                             !.hyperthyroidism = ht, !.cardiac_disease = cd,
                             !.substance_use_disorder = sud,
                             !.severe_anxiety_agitation = anx,
                             !.sbp = sbp, !.dbp = dbp, !.heart_rate = hr,
                             !.egfr = egfr, !.sleep_severe_insomnia = ins,
                             !.age = age] :
        maoi \in YesNo, gl \in {"No", "Open-angle"}, ht \in YesNo, cd \in YesNo,
        sud \in YesNo, anx \in YesNo,
        sbp \in {Blank, 120, 130, 140, 160}, dbp \in {Blank, 70, 90, 100},
        hr \in {Blank, 100, 120}, egfr \in {Blank, 10}, ins \in YesNo,
        age \in {Blank, 5} }

InitTriage ==
    /\ FirstRun
    /\ selected_se = "No data found"
    /\ \/ op = "triage_clonazepam" /\ args \in [p : ClonazepamPatients]
       \/ op = "triage_adderall" /\ args \in [p : AdderallPatients]
    /\ result = NotReturned

\* level, flags = triage_clonazepam(p).
ApplyTriageClonazepam ==
    /\ op = "triage_clonazepam"
    /\ Returns(triage_clonazepam(args.p))

\* level, flags = triage_adderall(p).
ApplyTriageAdderall ==
    /\ op = "triage_adderall"
    /\ Returns(triage_adderall(args.p))

NextTriage ==
    \/ ApplyTriageClonazepam
    \/ ApplyTriageAdderall

SpecTriage == InitTriage /\ [][NextTriage]_vars

\* ------------------------------------------------- require_auth, log out
\* require_auth with session state ss: where the run stops, and the session
\* state it leaves. Without a
\* session or a user the login form is shown and the script stops; with both
\* the profile is fetched, and the script goes on only if that succeeds.
require_auth_no_stop(ss, fetch_ok) ==
    IF ~ss.sb_session \/ ~ss.sb_user
    THEN [stage |-> "login_form", session_state |-> ss]
    ELSE [stage |-> "dashboard",
          session_state |-> IF fetch_ok THEN [ss EXCEPT !.profile = TRUE] ELSE ss]
require_auth(ss, fetch_ok) ==
    IF ~ss.sb_session \/ ~ss.sb_user
    THEN [stage |-> "login_form", session_state |-> ss]
    ELSE IF fetch_ok
    THEN [stage |-> "dashboard", session_state |-> [ss EXCEPT !.profile = TRUE]]
    ELSE [stage |-> "profile_error", session_state |-> ss]

\* The script stopped in require_auth: section 7 did not run, none of its
\* variables has a value.
NotComputed(m, se, cm, dm, dc) ==
    /\ selected_med' = m
    /\ selected_se' = se
    /\ counter_med' = cm
    /\ dt_med' = dm
    /\ dt_counter_user' = dc
    /\ t_plot' = <<>>
    /\ med_curve' = <<>>
    /\ se_curve' = <<>>
    /\ se_onset_hour' = None
    /\ se_peak_hour' = None
    /\ se_peak_time' = None
    /\ se_develop_time' = None
    /\ counter_curve' = <<>>
    /\ optimal_counter_offset' = None
    /\ optimal_counter_time' = None
    /\ user_offset' = None
    /\ covered' = <<>>

\* One run of the whole script, started by ev, with session state ss and the
\* widgets at the given values; fetch_ok is whether fetch_profile returned.
ScriptRun(ss, fetch_ok, ev, m, se, cm, dm, dc) ==
    \E a \in {require_auth(ss, fetch_ok)} :
        /\ stage' = a.stage
        /\ event' = ev
        /\ session_state' = a.session_state
        /\ IF a.stage = "dashboard"
           THEN Compute(m, se, cm, dm, dc)
           ELSE NotComputed(m, se, cm, dm, dc)
        /\ UNCHANGED call

\* The browser opens the page: an empty session state, the login form.
InitAuth ==
    /\ session_state = EmptySession
    /\ stage = "login_form"
    /\ event = "open"
    /\ selected_med = PSYCH_MEDS[1]
    /\ selected_se = "No data found"
    /\ counter_med = "None"
    /\ dt_med = DefaultDoseTime
    /\ dt_counter_user = DefaultDoseTime
    /\ t_plot = <<>>
    /\ med_curve = <<>>
    /\ se_curve = <<>>
    /\ se_onset_hour = None
    /\ se_peak_hour = None
    /\ se_peak_time = None
    /\ se_develop_time = None
    /\ counter_curve = <<>>
    /\ optimal_counter_offset = None
    /\ optimal_counter_time = None
    /\ user_offset = None
    /\ covered = <<>>
    /\ op = "script"
    /\ args = <<>>
    /\ result = NotReturned

\* login_ui, the form submitted: sign_in_with_password raises, and the form
\* stays with an error, or it returns a session and a user (either of which
\* may be empty), which are stored before st.rerun().
SubmitLogin ==
    /\ stage = "login_form"
    /\ \/ /\ event' = "login_failed"
          /\ UNCHANGED <<inputs, outputs, call, session_state, stage>>
       \/ \E sess \in BOOLEAN, user \in BOOLEAN, fetch_ok \in BOOLEAN,
             se \in ReactionChoices :
            ScriptRun([session_state EXCEPT !.sb_session = sess, !.sb_user = user],
                      fetch_ok, "login", PSYCH_MEDS[1], se, "None",
                      DefaultDoseTime, DefaultDoseTime)

\* logout_button, pressed: sign_out (whose failure is ignored), the session
\* state is cleared, st.rerun().
LogOut ==
    /\ stage = "dashboard"
    /\ \E fetch_ok \in BOOLEAN :
        ScriptRun(EmptySession, fetch_ok, "logout", PSYCH_MEDS[1],
                  "No data found", "None", DefaultDoseTime, DefaultDoseTime)

\* A widget of the dashboard is changed and the script runs again from the
\* top, require_auth and its profile fetch included.
Rerun(m, se, cm, dm, dc) ==
    /\ stage = "dashboard"
    /\ \E fetch_ok \in BOOLEAN :
        ScriptRun(session_state, fetch_ok, "widget", m, se, cm, dm, dc)

RerunSelectMedication ==
    \E m \in MedChoices, se \in ReactionChoices :
        Rerun(m, se, counter_med, dt_med, dt_counter_user)
RerunSelectSideEffect ==
    \E se \in ReactionChoices :
        Rerun(selected_med, se, counter_med, dt_med, dt_counter_user)
RerunSelectCounter ==
    \E cm \in CounterChoices :
        Rerun(selected_med, selected_se, cm, dt_med, dt_counter_user)
RerunSetMedDose ==
    \E dm \in MedDoseTimes :
        Rerun(selected_med, selected_se, counter_med, dm, dt_counter_user)
RerunSetCounterDose ==
    \E dc \in CounterDoseTimes :
        Rerun(selected_med, selected_se, counter_med, dt_med, dc)

NextAuth ==
    \/ SubmitLogin
    \/ LogOut
    \/ RerunSelectMedication
    \/ RerunSelectSideEffect
    \/ RerunSelectCounter
    \/ RerunSetMedDose
    \/ RerunSetCounterDose

SpecAuth == InitAuth /\ [][NextAuth]_vars

\* ---------------------------------------------------------------- coverage
\* The coverage percentage of the design document (4.5), which app.py does
\* not compute: integral(mitigation) / integral(se) * 100 by the simple sum,
\* 0 when integral(se) is 0.
Coverage(se, mitigation) ==
    IF SeqSum(se) = 0 THEN 0 ELSE (SeqSum(mitigation) * 100) \div SeqSum(se)

\* =================================================================== claims
\* The absolute time the script gives grid hour 0: se_peak_time is
\* dt_med + se_peak_hour.
GridStart == se_peak_time - se_peak_hour
GridEnd == GridStart + t_plot[Len(t_plot)]

\* C1: at every grid sample the covered (mitigation) curve is at most the
\* side-effect curve and at most the counter curve, and it is their pointwise
\* minimum.
C1_CoveredIsPointwiseMin ==
    /\ DOMAIN covered = DOMAIN se_curve
    /\ DOMAIN covered = DOMAIN counter_curve
    /\ \A i \in DOMAIN covered :
        /\ covered[i] <= se_curve[i]
        /\ covered[i] <= counter_curve[i]
        /\ covered[i] = Min2(se_curve[i], counter_curve[i])

\* A counter medication is selected and each curve is the smaller one
\* somewhere.
C1_Witness ==
    /\ counter_med # "None"
    /\ \E i \in DOMAIN covered : 0 < se_curve[i] /\ se_curve[i] < counter_curve[i]
    /\ \E j \in DOMAIN covered : 0 < counter_curve[j] /\ counter_curve[j] < se_curve[j]

\* C2: with a counter medication selected, the recommended offset is
\* max(onset - t_max, 0), the recommended time is the primary dose time plus
\* that offset, and so it is never earlier than the primary dose time.
C2_OptimalCounterTime ==
    counter_med # "None" =>
        /\ optimal_counter_offset =
               Max2(se_onset_hour - CounterTmax(COUNTER_MEDS[counter_med]), 0)
        /\ optimal_counter_time = dt_med + optimal_counter_offset
        /\ optimal_counter_time >= dt_med

\* The clamp acts: the onset is earlier than the counter medication's t_max.
C2_Witness ==
    /\ counter_med # "None"
    /\ se_onset_hour < CounterTmax(COUNTER_MEDS[counter_med])
    /\ optimal_counter_time = dt_med

Applied(f) == op = f /\ result.returned

\* C3: the onset is the grid time of the first sample strictly above 15% of
\* the curve's own maximum, and hour 0 when no sample is (an all-zero curve).
C3_OnsetFirstAboveThreshold ==
    Applied("onset") =>
        LET se == args.se
            above == {i \in DOMAIN se : 100 * se[i] > 15 * SeqMax(se)}
            onset == result.value.se_onset_hour
        IN  /\ above = {} => onset = 0
            /\ above # {} =>
                 \E i \in above :
                    /\ onset = args.t[i]
                    /\ \A j \in DOMAIN se : j < i => j \notin above
            /\ (\A i \in DOMAIN se : se[i] = 0) => onset = 0

\* The first sample above the threshold comes after a positive sample that is
\* exactly at 15% of the maximum.
C3_Witness ==
    /\ Applied("onset")
    /\ result.value.se_onset_hour > 0
    /\ \E i \in DOMAIN args.se :
         /\ args.se[i] > 0
         /\ 100 * args.se[i] = 15 * SeqMax(args.se)
         /\ args.t[i] < result.value.se_onset_hour

\* The ceilings the design document names for normalize.
Ceilings == {1, 85, 100}

\* C4 as claimed: for every target ceiling M the normalized curve's maximum
\* is M when the input's maximum is positive, and the input comes back
\* unchanged when its maximum is 0.
C4_NormalizeToCeiling ==
    Applied("normalize") =>
        \A M \in Ceilings :
            /\ SeqMax(args.x) > 0 => SeqMax(result.value) = M * Scale
            /\ SeqMax(args.x) = 0 => result.value = args.x

\* C4 as amended: normalize takes no ceiling; the normalized curve's maximum
\* is 1.0 when the input's maximum is positive, and the input comes back
\* unchanged when its maximum is 0.
C4_NormalizeToOne ==
    Applied("normalize") =>
        /\ DOMAIN result.value = DOMAIN args.x
        /\ SeqMax(args.x) > 0 => SeqMax(result.value) = Scale
        /\ SeqMax(args.x) = 0 => result.value = args.x

\* A curve whose positive maximum is not 1.0 and is reached twice.
C4_Witness ==
    /\ Applied("normalize")
    /\ SeqMax(args.x) > 0
    /\ SeqMax(args.x) # Scale
    /\ SeqSum(args.x) > SeqMax(args.x)
    /\ SeqMax(result.value) = Scale

\* C5: pk_model is exactly 0 at every sample whose time since the dose is
\* <= 0 and non-negative at every sample.
C5_PkZeroBeforeDoseNonNegative ==
    (Applied("pk_model") /\ ~result.value.raised) =>
        /\ DOMAIN result.value.curve = DOMAIN args.t_hours
        /\ \A i \in DOMAIN args.t_hours :
            /\ args.t_hours[i] <= 0 => result.value.curve[i] = 0
            /\ result.value.curve[i] >= 0

\* Elimination faster than absorption (a negative coefficient), samples
\* before the dose and a positive concentration after it.
C5_Witness ==
    /\ Applied("pk_model")
    /\ ~result.value.raised
    /\ args.ka < args.ke
    /\ \E i \in DOMAIN args.t_hours : args.t_hours[i] < 0
    /\ \E i \in DOMAIN args.t_hours : result.value.curve[i] > 0

C7_NoCounterNoCoverage ==
    Applied("covered") =>
        LET zero(c) == \A i \in DOMAIN c : c[i] = 0
        IN  /\ (args.counter_med = "None" \/ zero(args.counter)) =>
                 /\ DOMAIN result.value = DOMAIN args.se
                 /\ zero(result.value)
                 /\ Coverage(args.se, result.value) = 0
            /\ SeqSum(args.se) = 0 => Coverage(args.se, result.value) = 0

\* No counter medication and a side effect to cover.
C7_Witness ==
    /\ Applied("covered")
    /\ args.counter_med = "None"
    /\ SeqSum(args.se) > 0
    /\ SeqSum(result.value) = 0

C9_SharedGrid ==
    /\ Len(t_plot) = GridLen
    /\ \A i \in 1 .. Len(t_plot) - 1 : t_plot[i] < t_plot[i + 1]
    /\ Len(med_curve) = Len(t_plot)
    /\ Len(se_curve) = Len(t_plot)
    /\ Len(counter_curve) = Len(t_plot)
    /\ Len(covered) = Len(t_plot)

\* A run with a counter medication, and its curves on the grid.
C9_Witness ==
    /\ counter_med # "None"
    /\ Len(counter_curve) = GridLen
    /\ SeqMax(counter_curve) > 0

\* C10 as claimed: the grid's zero point is the earliest of the dose times
\* involved minus a lead-in margin (of whatever size, 0 included), so no dose
\* instant lies before the grid.
C10_AnchoredAtEarliestDose ==
    LET earliest == IF counter_med # "None"
                    THEN Min2(dt_med, dt_counter_user) ELSE dt_med
        lead_in == earliest - GridStart
    IN  lead_in >= 0

\* C10 as amended: the grid's zero point is the primary dose time itself,
\* whatever the counter-dose time; the counter dose sits at grid hour
\* dt_counter_user - dt_med, which is before the grid when the counter dose
\* is the earlier one and on the grid only from 0 to the grid's last hour.
C10_AnchoredAtPrimaryDose ==
    /\ GridStart = dt_med
    /\ t_plot[1] = 0
    /\ se_develop_time = dt_med + se_onset_hour
    /\ counter_med # "None" =>
        /\ user_offset = dt_counter_user - dt_med
        /\ dt_counter_user < dt_med => user_offset < t_plot[1]
        /\ (GridStart <= dt_counter_user /\ dt_counter_user <= GridEnd)
              <=> (t_plot[1] <= user_offset /\ user_offset <= t_plot[Len(t_plot)])

\* A counter dose taken before the primary dose.
C10_Witness ==
    /\ counter_med # "None"
    /\ dt_counter_user < dt_med
    /\ user_offset < 0

\* The values of t_max tried in place of the counter medication's own, in
\* tenths of an hour.
TmaxValues == {0, 10, 50}

\* C11: the recommended counter-dose time is only reported: with a counter
\* medication selected, the counter curve is the same for every medication
\* and side effect the recommendation could have been derived from and for
\* every t_max, and the covered curve is made of the side-effect curve and
\* that counter curve alone.
C11_RecommendationNotUsed ==
    counter_med # "None" =>
        LET c == COUNTER_MEDS[counter_med]
        IN  /\ \A m \in MedChoices, se \in ReactionChoices :
                   Script(m, se, counter_med, dt_med, dt_counter_user).counter_curve
                       = counter_curve
            /\ \A tm \in TmaxValues :
                   LET c2 == [c EXCEPT !.t_max = tm]
                   IN  CounterCurve(t_plot, c2, user_offset,
                                    OptimalOffset(se_onset_hour, c2)) = counter_curve
            /\ covered = Covered(se_curve, counter_curve, counter_med)

\* The recommended offset differs from the user's, another side effect
\* would change the recommendation, and the counter curve is on the grid.
C11_Witness ==
    /\ counter_med # "None"
    /\ optimal_counter_offset # user_offset
    /\ \E se \in ReactionChoices :
          Script(selected_med, se, counter_med, dt_med, dt_counter_user)
              .optimal_counter_offset # optimal_counter_offset
    /\ SeqMax(counter_curve) > 0

\* The primary medication's half-life, rates and lag in the current run.
HalfLife == MED_HALF_LIFE_HOURS[MED_SEARCH_NAME[selected_med]]
KeMed == Ln2 \div HalfLife
KaMed ==
    IF MED_SEARCH_NAME[selected_med] \in DOMAIN MED_KA
    THEN MED_KA[MED_SEARCH_NAME[selected_med]] ELSE MED_KA["default"]
Lag == reaction_lag_hours(selected_se, HalfLife)

\* C12: the side-effect curve is the normalized curve of the primary
\* medication's own ka and ke on the grid shifted back by the lag, the lag is
\* never negative, and the side-effect peak is at the primary peak plus the
\* lag, within one grid step.
C12_TrailingPeak ==
    /\ Lag >= 0
    /\ se_curve = normalize(pk_model(Shift(t_plot, Lag), 80, KaMed, KeMed))
    /\ Abs(se_peak_hour - (PeakHour(t_plot, med_curve) + Lag)) <= GridStep

\* A lag of more than a grid step moves the peak to a later grid sample.
C12_Witness ==
    /\ Lag > GridStep
    /\ se_peak_hour > PeakHour(t_plot, med_curve)
    /\ se_peak_hour < t_plot[Len(t_plot)]

\* The categories the design document gives a side effect.
Categories == {"trailing", "rebound", "cumulative"}

LabelNames(b, drug) == Mentions(JoinSections(b), drug)

\* C14: with a counter medication selected, if the contraindications section
\* of either label mentions the other drug, the severity is severe, whatever
\* the other sections hold.
C14_ContraindicationIsSevere ==
    (/\ Applied("interaction_severity")
     /\ args.counter_generic # "none"
     /\ \/ Mentions(args.main.contraindications, args.counter_generic)
        \/ Mentions(args.ctr.contraindications, args.main_generic))
    => result.value.severity = "severe"

\* Only the counter medication's contraindications name the other drug,
\* while the main label mentions the counter medication with cautionary
\* wording and its lookup or the other's may have failed.
C14_Witness ==
    /\ Applied("interaction_severity")
    /\ Mentions(args.ctr.contraindications, args.main_generic)
    /\ ~Mentions(args.main.contraindications, args.counter_generic)
    /\ args.main.drug_interactions = <<"monitor", args.counter_generic>>
    /\ result.value.severity = "severe"

\* The words the claim names for strong wording.
StrongWords == {"avoid", "do not", "contraindicated"}

\* The text around the mention of a drug in a drug_interactions section has
\* strong wording.
StrongMention(b, drug) ==
    AnyWord(StrongWords, find_snippet(b.drug_interactions, drug))

\* C15: if the text around a mention of the other drug in either label's
\* drug_interactions section contains 'avoid', 'do not' or 'contraindicated',
\* the severity is high or severe, never med or low, also for a mention in
\* the counter medication's label while the main label mentions the counter
\* medication with cautionary wording only.
C15_StrongWordingIsHighOrSevere ==
    (/\ Applied("interaction_severity")
     /\ args.counter_generic # "none"
     /\ \/ StrongMention(args.main, args.counter_generic)
        \/ StrongMention(args.ctr, args.main_generic))
    => result.value.severity \in {"high", "severe"}

\* C16: the severity is low if and only if no counter medication is selected
\* or neither label's text names the other drug, as when no text could be
\* retrieved for either; when a label names the other drug the severity is
\* med, high or severe.
C16_LowIffNoMention ==
    Applied("interaction_severity") =>
        LET named == \/ LabelNames(args.main, args.counter_generic)
                     \/ LabelNames(args.ctr, args.main_generic)
            sev == result.value.severity
        IN  /\ sev = "low" <=> (args.counter_generic = "none" \/ ~named)
            /\ (~args.main.success /\ ~args.ctr.success) => sev = "low"
            /\ (args.counter_generic # "none" /\ named)
                  => sev \in {"med", "high", "severe"}

\* Only the counter medication's label names the other drug, without any
\* keyword, and the main label's lookup failed.
C16_Witness ==
    /\ Applied("interaction_severity")
    /\ ~args.main.success
    /\ args.ctr.drug_interactions = <<args.main_generic>>
    /\ args.ctr.contraindications = <<>>
    /\ args.ctr.warnings = <<>>
    /\ result.value.severity = "med"

\* The rules of the function applied, for its patient.
RulesApplied ==
    IF op = "triage_clonazepam" THEN ClonazepamRules(args.p)
    ELSE AdderallRules(args.p)

\* The rules in the opposite order.
Reversed(rules) == [i \in DOMAIN rules |-> rules[Len(rules) + 1 - i]]

\* C17: the level returned is the greatest, in the order low < med < high <
\* severe, of the levels of the rules that fired, whatever order the rules
\* are evaluated in; each rule that fired added exactly one flag, and the
\* level is low if and only if there is no flag.
C17_LevelIsMaxOfFired ==
    (Applied("triage_clonazepam") \/ Applied("triage_adderall")) =>
        LET rules == RulesApplied
            fired == {i \in DOMAIN rules : rules[i].fired}
            level == result.value.level
            flags == result.value.flags
        IN  /\ \A i \in fired : LevelIndex(rules[i].level) <= LevelIndex(level)
            /\ \/ fired = {} /\ level = "low"
               \/ \E i \in fired : rules[i].level = level
            /\ TriageFrom(Reversed(rules), 1, "low", <<>>).level = level
            /\ Len(flags) = Cardinality(fired)
            /\ \A i \in fired : \E k \in DOMAIN flags : flags[k] = rules[i].flag
            /\ level = "low" <=> flags = <<>>

\* A severe rule fired before a rule of a lower level.
C17_Witness ==
    /\ Applied("triage_adderall")
    /\ args.p.maoi_last_14d = "Yes"
    /\ args.p.sleep_severe_insomnia = "Yes"
    /\ args.p.heart_rate = 120
    /\ Len(result.value.flags) = 3
    /\ result.value.level = "severe"

\* C18: whenever the systolic pressure supplied is >= 160 or the diastolic
\* pressure supplied is >= 100, triage_adderall returns severe with the
\* moderate-severe hypertension flag, whatever the other fields are and also
\* with the other pressure left blank.
C18_SevereHypertensionIsSevere ==
    (/\ Applied("triage_adderall")
     /\ \/ (args.p.sbp # Blank /\ args.p.sbp >= 160)
        \/ (args.p.dbp # Blank /\ args.p.dbp >= 100))
    => /\ result.value.level = "severe"
       /\ \E k \in DOMAIN result.value.flags :
              result.value.flags[k] = "BP moderate-severe"

\* Section 7 of the script ran in the last run.
Computed == t_plot # <<>>

\* C19: the code after require_auth is reached only with a session and a
\* user in the session state and the profile fetched; a logout clears the
\* session state and the run it starts stops at the login form, where the
\* script stays until a login succeeds.
C19_DashboardOnlyWhenAuthenticated ==
    /\ [](stage = "dashboard" =>
            /\ session_state.sb_session
            /\ session_state.sb_user
            /\ session_state.profile)
    /\ [](Computed => stage = "dashboard")
    /\ [][(stage = "dashboard" /\ event' = "logout") =>
            /\ session_state' = EmptySession
            /\ stage' = "login_form"
            /\ ~Computed']_vars
    /\ [][(stage = "login_form" /\ stage' # "login_form") =>
            /\ event' = "login"
            /\ session_state'.sb_session
            /\ session_state'.sb_user]_vars

\* The login form after a logout.
C19_Witness ==
    /\ event = "logout"
    /\ stage = "login_form"
    /\ session_state = EmptySession
    /\ ~Computed

\* C20: for every side-effect curve, an all-zero one included, the onset
\* hour is at most the peak hour (the first sample above 15% of the maximum
\* is not after the first sample holding the maximum), so the time the side
\* effect develops is never later than the time of its peak.
C20_OnsetNotAfterPeak ==
    /\ Applied("onset") =>
         /\ result.value.se_onset_hour <= result.value.se_peak_hour
         /\ (\A i \in DOMAIN args.se : args.se[i] = 0) =>
               /\ result.value.se_onset_hour = 0
               /\ result.value.se_peak_hour = 0
    /\ stage = "dashboard" =>
         /\ se_onset_hour <= se_peak_hour
         /\ se_develop_time <= se_peak_time

\* A curve that rises above 15% of its maximum before it reaches the maximum,
\* and falls back above 15% after it.
C20_Witness ==
    /\ Applied("onset")
    /\ result.value.se_onset_hour < result.value.se_peak_hour
    /\ \E i \in DOMAIN args.se :
         /\ args.t[i] > result.value.se_peak_hour
         /\ 100 * args.se[i] > 15 * SeqMax(args.se)

====
